---- MODULE Spec2Model ----
(***************************************************************************)
(* Light Assistant (src/main.py): the per-user conversation store          *)
(* (UserStorage) and the streaming chat relay (chat / chat.generate).      *)
(*                                                                         *)
(* One user is modelled: every operation of UserStorage works on the one   *)
(* conversations.json of the e-mail it is given, and users share nothing.  *)
(*                                                                         *)
(* Text is a sequence of one-character strings, so that slicing            *)
(* (content[:50]) and concatenation (full_response += content) are         *)
(* computed as the code computes them.                                     *)
(*                                                                         *)
(* Left out: created_at / updated_at / timestamp (wall-clock values no     *)
(* branch of the code reads), and failures of the disk itself (open() or   *)
(* write() raising).  secrets.token_hex(8) is modelled as a fresh id.      *)
(***************************************************************************)
EXTENDS Integers, Sequences, FiniteSets, TLC

\* ------------------------------------------------------------------ bounds
\* How many conversations are ever created (ids 1..MaxConvs).
MaxConvs == 2

\* How many lines a backend body has at most.
MaxLines == 3

\* How many conversations are ever created where only their order and their
\* is_active flags matter (ids 1..MaxOrdered).
MaxOrdered == 3

\* How long the message list of a conversation gets where the backend
\* payload is built from it.
MaxHistory == 22

\* How many chat requests follow one another.
MaxTurns == 2

\* ------------------------------------------------------- program constants
\* context_messages = messages[-20:]
ContextLen == 20

\* first_msg['content'][:50]
TitleLen == 50

\* 'New Conversation', the placeholder title
NewTitle == <<"N","e","w"," ","C","o","n","v","e","r","s","a","t","i","o","n">>

VARIABLES
    file,       \* conversations.json of the user
    nextId,     \* ghost: the next fresh conversation id
    last,       \* ghost: the last UserStorage call, its argument and its result
    relay,      \* per chat request: the locals of chat() and generate()
    registry,   \* the stream tokens that are live
    handler,    \* per request thread: where it is in its UserStorage call
    stable      \* ghost: the collection last written to the file completely

storeVars == <<file, nextId, last>>
relayVars == <<relay, registry>>
threadVars == <<handler, stable>>

vars == <<file, nextId, last, relay, registry, handler, stable>>

\* ------------------------------------------------------------------- data
Hi == <<"h","i">>
Long == [i \in 1..(TitleLen + 1) |-> "x"]

UserMsg(text) == [role |-> "user", content |-> text]
AssistantMsg(text) == [role |-> "assistant", content |-> text]

NoConv == [id |-> 0, title |-> <<>>, is_active |-> FALSE, messages |-> <<>>]

\* The dict both get_active_conversation and create_new_conversation build.
NewConv(id) ==
    [id |-> id, title |-> NewTitle, is_active |-> TRUE, messages |-> <<>>]

\* Ids a request may name: every id ever handed out, and one that never was.
ArgIds == 1..(MaxConvs + 1)

\* Message lists update_conversation is called with.
UpdateArgs ==
    { <<>>,
      <<UserMsg(Hi)>>,
      <<UserMsg(Hi), AssistantMsg(<<"a">>)>>,
      <<AssistantMsg(<<"a">>), UserMsg(Long)>> }

\* ------------------------------------------------------------ UserStorage
\* load_conversations: [] when the file is missing or json.load raises.
load_conversations ==
    IF file.kind = "json" THEN file.conversations ELSE <<>>

\* A str may hold a lone surrogate: json.loads makes one of the escape
\* \ud83d when no low surrogate follows, in the request body and in a line
\* of the backend alike.
LoneSurrogate == "U+D83D"

\* Every str of the list can be written to a file opened with
\* encoding='utf-8': none holds a lone surrogate.
Encodable(conversations) ==
    LET WellFormed == Seq(STRING \ {LoneSurrogate})
    IN  \A i \in DOMAIN conversations :
            /\ conversations[i].title \in WellFormed
            /\ \A j \in DOMAIN conversations[i].messages :
                    conversations[i].messages[j].content \in WellFormed

\* What save_conversations leaves on disk: open(conv_file, 'w') empties the
\* file and json.dump(..., ensure_ascii=False) writes the text.  A str that
\* cannot be encoded makes f.write raise UnicodeEncodeError in the middle of
\* the text; the exception is logged, the beginning of the text stays.
Saved(conversations) ==
    IF Encodable(conversations)
    THEN [kind |-> "json", conversations |-> conversations]
    ELSE [kind |-> "partial", conversations |-> <<>>]

HasActiveWrongKey(conversations) == FALSE

\* any(c.get('is_active', False) for c in conversations)
HasActive(conversations) ==
    \E i \in DOMAIN conversations : conversations[i].is_active

\* for conv in conversations: if conv.get('is_active', False): return conv
FirstActive(conversations) ==
    conversations[CHOOSE i \in DOMAIN conversations :
        /\ conversations[i].is_active
        /\ \A j \in 1..(i - 1) : ~conversations[j].is_active]

InsertLast(conv, conversations) == Append(conversations, conv)

\* conversations.insert(0, new_conv)
InsertFirst(conv, conversations) == <<conv>> \o conversations

DeactivatedNone(conversations) == conversations

\* for conv in conversations: conv['is_active'] = False
Deactivated(conversations) ==
    [i \in DOMAIN conversations |->
        [conversations[i] EXCEPT !.is_active = FALSE]]

\* for conv in conversations: conv['is_active'] = (conv['id'] == conv_id)
Activated(conversations, conv_id) ==
    [i \in DOMAIN conversations |->
        [conversations[i] EXCEPT !.is_active = (conversations[i].id = conv_id)]]

FoundAlways(conversations, conv_id) == TRUE

\* found: some conv['id'] == conv_id
Found(conversations, conv_id) ==
    \E i \in DOMAIN conversations : conversations[i].id = conv_id

\* [c for c in conversations if c['id'] != conv_id]
Without(conversations, conv_id) ==
    SelectSeq(conversations, LAMBDA c : c.id # conv_id)

DeletedActivatesLast(conversations, conv_id) ==
    LET rest == Without(conversations, conv_id)
    IN  IF ~HasActive(rest) /\ rest # <<>>
        THEN [rest EXCEPT ![Len(rest)].is_active = TRUE]
        ELSE rest

\* delete_conversation's list: filter, then re-activate the first one.
Deleted(conversations, conv_id) ==
    LET rest == Without(conversations, conv_id)
    IN  IF ~HasActive(rest) /\ rest # <<>>
        THEN [rest EXCEPT ![1].is_active = TRUE]
        ELSE rest

\* content[:50] + ('...' if len(content) > 50 else '')
TitleOf(content) ==
    SubSeq(content, 1, IF Len(content) < TitleLen THEN Len(content) ELSE TitleLen)
        \o (IF Len(content) > TitleLen THEN <<".", ".", ".">> ELSE <<>>)

HasUserMsg(messages) == \E i \in DOMAIN messages : messages[i].role = "user"

\* next((m for m in messages if m['role'] == 'user'), None)
FirstUserMsg(messages) ==
    messages[CHOOSE i \in DOMAIN messages :
        /\ messages[i].role = "user"
        /\ \A j \in 1..(i - 1) : messages[j].role # "user"]

UpdatedConvExtends(conv, messages) ==
    [conv EXCEPT !.messages = @ \o messages]

UpdatedConvMerges(conv, messages) ==
    [conv EXCEPT
        !.messages =
            IF Len(@) <= Len(messages) /\ SubSeq(messages, 1, Len(@)) = @
            THEN messages
            ELSE @ \o SubSeq(messages, Len(messages) - 1, Len(messages))]

\* The body of update_conversation's loop for the conversation it found.
UpdatedConv(conv, messages) ==
    [conv EXCEPT
        !.messages = messages,
        !.title = IF Len(messages) > 0 /\ conv.title = NewTitle /\ HasUserMsg(messages)
                  THEN TitleOf(FirstUserMsg(messages).content)
                  ELSE conv.title]

UpdatedOrCreated(conversations, conv_id, messages) ==
    IF \E i \in DOMAIN conversations : conversations[i].id = conv_id
    THEN [i \in DOMAIN conversations |->
            IF conversations[i].id = conv_id
            THEN UpdatedConv(conversations[i], messages)
            ELSE conversations[i]]
    ELSE <<UpdatedConv([NewConv(conv_id) EXCEPT !.is_active = FALSE], messages)>>
            \o conversations

\* update_conversation's list: the first conversation with the id is updated.
Updated(conversations, conv_id, messages) ==
    [i \in DOMAIN conversations |->
        IF /\ conversations[i].id = conv_id
           /\ \A j \in 1..(i - 1) : conversations[j].id # conv_id
        THEN UpdatedConv(conversations[i], messages)
        ELSE conversations[i]]

\* Ghost record of a call: its name, the id it was given, what it returned
\* (ok: the bool, conv: the dict) and the name of the call before it.
Call(op, arg, ok, conv) ==
    [op |-> op, arg |-> arg, ok |-> ok, conv |-> conv, prev |-> last.op]

\* get_active_conversation, while fewer than max_convs conversations were
\* created
GetActiveWithin(max_convs) ==
    LET conversations == load_conversations
    IN  /\ IF HasActive(conversations)
           THEN /\ last' = Call("getActive", 0, TRUE, FirstActive(conversations))
                /\ UNCHANGED <<file, nextId>>
           ELSE /\ nextId <= max_convs
                /\ file' = Saved(InsertFirst(NewConv(nextId), conversations))
                /\ nextId' = nextId + 1
                /\ last' = Call("getActive", 0, TRUE, NewConv(nextId))

GetActive == GetActiveWithin(MaxConvs)

\* create_new_conversation, while fewer than max_convs conversations were
\* created
CreateNewWithin(max_convs) ==
    LET conversations == load_conversations
    IN  /\ nextId <= max_convs
        /\ file' = Saved(InsertFirst(NewConv(nextId), Deactivated(conversations)))
        /\ nextId' = nextId + 1
        /\ last' = Call("createNew", 0, TRUE, NewConv(nextId))

CreateNew == CreateNewWithin(MaxConvs)

\* set_active_conversation
SetActive(conv_id) ==
    LET conversations == load_conversations
    IN  /\ IF Found(conversations, conv_id)
           THEN file' = Saved(Activated(conversations, conv_id))
           ELSE file' = file
        /\ last' = Call("setActive", conv_id, Found(conversations, conv_id), NoConv)
        /\ UNCHANGED nextId

\* update_conversation
Update(conv_id, messages) ==
    LET conversations == load_conversations
    IN  /\ file' = Saved(Updated(conversations, conv_id, messages))
        /\ last' = Call("update", conv_id, TRUE, NoConv)
        /\ UNCHANGED nextId

\* delete_conversation
Delete(conv_id) ==
    LET conversations == load_conversations
    IN  /\ file' = Saved(Deleted(conversations, conv_id))
        /\ last' = Call("delete", conv_id, TRUE, NoConv)
        /\ UNCHANGED nextId

\* ------------------------------------------------------------------ chat
\* A relay is one run of generate() for one chat request.  The relays of
\* different requests share nothing but the file.
Relays == {1}

\* request.get_json().get("message", "").strip(), when it is not empty
UserTexts == {Hi, Long}

SystemPrompt == <<"You are Light, a helpful AI assistant.">>

FirstN(seq, n) == SubSeq(seq, 1, IF Len(seq) > n THEN n ELSE Len(seq))

\* seq[-n:]
LastN(seq, n) ==
    SubSeq(seq, IF Len(seq) > n THEN Len(seq) - n + 1 ELSE 1, Len(seq))

\* ollama_messages: the system message, then role and content of messages[-20:]
OllamaMessages(messages) ==
    LET context_messages == LastN(messages, ContextLen)
    IN  <<[role |-> "system", content |-> SystemPrompt]>>
            \o [i \in DOMAIN context_messages |->
                    [role |-> context_messages[i].role,
                     content |-> context_messages[i].content]]

\* The events generate() yields.
ContentEvent(content) == [kind |-> "content", content |-> content]
DoneEvent == [kind |-> "done", content |-> <<>>]
ErrorEvent(text) == [kind |-> "error", content |-> text]

\* The status codes the backend answers with.
Statuses == {200, 404, 503}

\* A line of the backend body, as response.iter_lines() hands it over:
\*   blank               b''                            (if not line: continue)
\*   bad_json            json.loads raises JSONDecodeError
\*   not_utf8            json.loads raises UnicodeDecodeError
\*   not_object          JSON that is no object (null, 5, []): the "in" test
\*                       or .get raises TypeError / AttributeError
\*   message_not_object  {"message": null}: the "in" test raises TypeError
\*   content_not_text    {"message": {"content": 5}}: += raises TypeError
\*   record              a JSON object; has_content says whether
\*                       message.content is there, done is .get("done", False)
Line(kind, has_content, content, done) ==
    [kind |-> kind, has_content |-> has_content, content |-> content, done |-> done]

Fragments == {<<>>, <<"a">>, <<"b">>}

Records ==
    {Line("record", TRUE, c, d) : c \in Fragments, d \in BOOLEAN}
        \cup {Line("record", FALSE, <<>>, d) : d \in BOOLEAN}

Lines ==
    Records \cup
    {Line(k, FALSE, <<>>, FALSE) :
        k \in {"blank", "bad_json", "not_utf8", "not_object",
               "message_not_object", "content_not_text"}}

\* if not line: continue / except json.JSONDecodeError: continue
Skipped(line) == line.kind \in {"blank", "bad_json"}

\* The line makes the loop body raise something other than JSONDecodeError.
Raises(line) ==
    line.kind \in {"not_utf8", "not_object", "message_not_object", "content_not_text"}

\* "message" in chunk_data and "content" in chunk_data["message"], and
\* the content is not empty
CarriesContent(line) ==
    line.kind = "record" /\ line.has_content /\ line.content # <<>>

IdleRelay ==
    [pc |-> "idle", status |-> 0, conv_id |-> 0, messages |-> <<>>,
     ollama_messages |-> <<>>, full_response |-> <<>>, out |-> <<>>,
     body |-> <<>>, commits |-> 0, stop_at |-> -1, stop_empty |-> FALSE,
     before |-> [kind |-> "absent", conversations |-> <<>>],
     user_message |-> <<>>, turn |-> 1]

\* StreamRegistry: begin adds the token of a relay, stop and the end of the
\* relay remove it.
RegistryBegin(r) == registry' = registry \cup {r}
RegistryEnd(r) == registry' = registry \ {r}

\* chat(), up to the Response it returns: the active conversation is read
\* (and created when there is none), the user's message is appended to the
\* list in memory and the backend payload is built.
ChatStart(r, text) ==
    /\ relay[r].pc = "idle"
    /\ GetActive
    /\ LET conv == last'.conv
           messages == Append(conv.messages, UserMsg(text))
       IN  relay' = [relay EXCEPT ![r] =
                [@ EXCEPT !.pc = "requesting",
                          !.conv_id = conv.id,
                          !.messages = messages,
                          !.ollama_messages = OllamaMessages(messages),
                          !.full_response = <<>>,
                          !.before = file,
                          !.user_message = text]]
    /\ RegistryBegin(r)
    /\ UNCHANGED threadVars

\* chat(), from context_messages = messages[-20:] to the payload: the list
\* in memory is read, a new list is built.
BuildContext(r) ==
    /\ relay[r].pc = "context"
    /\ relay' = [relay EXCEPT ![r] =
            [@ EXCEPT !.pc = "requesting",
                      !.ollama_messages = OllamaMessages(relay[r].messages)]]
    /\ UNCHANGED <<storeVars, registry, threadVars>>

\* yield of an event that ends generate()
EndWith(r, event) ==
    /\ relay' = [relay EXCEPT ![r] =
            [@ EXCEPT !.pc = "finished", !.out = Append(@, event)]]
    /\ RegistryEnd(r)

\* requests.post raises (connection refused, timeout): except Exception
PostRaises(r) ==
    /\ relay[r].pc = "requesting"
    /\ EndWith(r, ErrorEvent(<<"exception">>))
    /\ UNCHANGED <<storeVars, threadVars>>

IsErrorStatusOnly5xx(status_code) == status_code >= 500

\* if response.status_code != 200
IsErrorStatus(status_code) == status_code # 200

\* requests.post returns a response with this status code
BackendResponds(r, status_code) ==
    /\ relay[r].pc = "requesting"
    /\ IF IsErrorStatus(status_code)
       THEN /\ relay' = [relay EXCEPT ![r] =
                    [@ EXCEPT !.pc = "finished", !.status = status_code,
                              !.out = Append(@, ErrorEvent(<<"Ollama error: ", ToString(status_code)>>))]]
            /\ RegistryEnd(r)
       ELSE /\ relay' = [relay EXCEPT ![r] =
                    [@ EXCEPT !.pc = "streaming", !.status = status_code]]
            /\ UNCHANGED registry
    /\ UNCHANGED <<storeVars, threadVars>>

AccumulateOverwrite(full_response, content) == content

\* full_response += content
Accumulate(full_response, content) == full_response \o content

\* One turn of "for line in response.iter_lines()", up to the done test.
RecvLine(r, line) ==
    /\ relay[r].pc = "streaming"
    /\ Len(relay[r].body) < MaxLines
    /\ IF Raises(line)
       THEN /\ relay' = [relay EXCEPT ![r] =
                    [@ EXCEPT !.pc = "finished", !.body = Append(@, line),
                              !.out = Append(@, ErrorEvent(<<"exception">>))]]
            /\ RegistryEnd(r)
       ELSE /\ relay' = [relay EXCEPT ![r] =
                    [@ EXCEPT
                        !.body = Append(@, line),
                        !.full_response =
                            IF CarriesContent(line)
                            THEN Accumulate(@, line.content) ELSE @,
                        !.out =
                            IF CarriesContent(line)
                            THEN Append(@, ContentEvent(line.content)) ELSE @,
                        !.pc =
                            IF ~Skipped(line) /\ line.done
                            THEN "commit" ELSE "streaming"]]
            /\ UNCHANGED registry
    /\ UNCHANGED <<storeVars, threadVars>>

BodyEndCommits(r) ==
    /\ relay[r].pc = "streaming"
    /\ Update(relay[r].conv_id,
              Append(relay[r].messages, AssistantMsg(relay[r].full_response)))
    /\ relay' = [relay EXCEPT ![r] = [@ EXCEPT !.pc = "finished"]]
    /\ RegistryEnd(r)
    /\ UNCHANGED threadVars

\* response.iter_lines() is exhausted: the loop and generate() end
BodyEnd(r) ==
    /\ relay[r].pc = "streaming"
    /\ relay' = [relay EXCEPT ![r] = [@ EXCEPT !.pc = "finished"]]
    /\ RegistryEnd(r)
    /\ UNCHANGED <<storeVars, threadVars>>

\* response.iter_lines() raises (connection lost, read timeout)
BodyRaises(r) ==
    /\ relay[r].pc = "streaming"
    /\ EndWith(r, ErrorEvent(<<"exception">>))
    /\ UNCHANGED <<storeVars, threadVars>>

CommitToActive(r) ==
    /\ relay[r].pc = "commit"
    /\ LET messages == Append(relay[r].messages, AssistantMsg(relay[r].full_response))
           conversations == load_conversations
           conv_id == IF HasActive(conversations)
                      THEN FirstActive(conversations).id
                      ELSE relay[r].conv_id
       IN  /\ Update(conv_id, messages)
           /\ relay' = [relay EXCEPT ![r] =
                    [@ EXCEPT !.pc = "yield_done", !.messages = messages,
                              !.commits = @ + 1]]
    /\ UNCHANGED <<registry, threadVars>>

\* if chunk_data.get("done", False): messages.append(...) and
\* storage.update_conversation(email, conv['id'], messages)
Commit(r) ==
    /\ relay[r].pc = "commit"
    /\ LET messages == Append(relay[r].messages, AssistantMsg(relay[r].full_response))
       IN  /\ Update(relay[r].conv_id, messages)
           /\ relay' = [relay EXCEPT ![r] =
                    [@ EXCEPT !.pc = "yield_done", !.messages = messages,
                              !.commits = @ + 1]]
    /\ UNCHANGED <<registry, threadVars>>

\* yield the done event, then break
EmitDone(r) ==
    /\ relay[r].pc = "yield_done"
    /\ EndWith(r, DoneEvent)
    /\ UNCHANGED <<storeVars, threadVars>>

\* The stream of a request has ended and the user sends the next message:
\* chat() runs again, with a generate() of its own.
NextRequest(r) ==
    /\ relay[r].pc = "finished"
    /\ relay[r].turn < MaxTurns
    /\ relay' = [relay EXCEPT ![r] = [IdleRelay EXCEPT !.turn = relay[r].turn + 1]]
    /\ UNCHANGED <<storeVars, registry, threadVars>>

\* StreamRegistry.stop(token) while the relay waits for the next line.
Stop(r) ==
    /\ r \in registry
    /\ relay[r].pc = "streaming"
    /\ registry' = registry \ {r}
    /\ relay' = [relay EXCEPT ![r] =
            [@ EXCEPT !.stop_at = Len(relay[r].out),
                      !.stop_empty = (relay[r].full_response = <<>>)]]
    /\ UNCHANGED <<storeVars, threadVars>>

\* ---------------------------------------------------------------- threads
\* app.run(threaded=True): every request runs in a thread of its own, and a
\* UserStorage call touches the file three times: load_conversations reads
\* it, open(conv_file, 'w') empties it, and json.dump with the close of the
\* file writes the new text.  Between open and close the file holds nothing
\* or the beginning of the text, which json.load refuses.
Handlers == {1, 2}

IdleHandler ==
    [pc |-> "idle", op |-> "none", loaded |-> <<>>, conversations |-> <<>>,
     allowed |-> {}, overwritten |-> FALSE]

\* The calls a thread makes; the id is 0 for the calls that take none.
ThreadCalls ==
    {<<"getActive", 0>>, <<"createNew", 0>>}
        \cup {<<op, conv_id>> : op \in {"setActive", "delete", "update"}, conv_id \in ArgIds}

Creates(op, conversations) ==
    op = "createNew" \/ (op = "getActive" /\ ~HasActive(conversations))

\* Whether the call goes on to save_conversations with what it loaded.
Saves(op, conv_id, conversations) ==
    CASE op = "getActive" -> ~HasActive(conversations)
      [] op = "setActive" -> Found(conversations, conv_id)
      [] OTHER -> TRUE

\* The list the call hands to save_conversations.
ToSave(op, conv_id, conversations) ==
    CASE op = "getActive" -> InsertFirst(NewConv(nextId), conversations)
      [] op = "createNew" -> InsertFirst(NewConv(nextId), Deactivated(conversations))
      [] op = "setActive" -> Activated(conversations, conv_id)
      [] op = "delete" -> Deleted(conversations, conv_id)
      [] OTHER -> Updated(conversations, conv_id, <<UserMsg(Hi), AssistantMsg(<<"a">>)>>)

\* The collections being written at this moment.
BeingSaved == {handler[h].conversations : h \in {g \in Handlers : handler[g].pc = "write"}}

\* load_conversations of a call, and everything the call does in memory.
ThreadLoad(h, op, conv_id) ==
    LET conversations == load_conversations
    IN  /\ handler[h].pc = "idle"
        /\ Creates(op, conversations) => nextId <= MaxConvs
        /\ nextId' = IF Creates(op, conversations) THEN nextId + 1 ELSE nextId
        /\ handler' = [handler EXCEPT ![h] =
                [pc |-> IF Saves(op, conv_id, conversations) THEN "open" ELSE "return",
                 op |-> op,
                 loaded |-> conversations,
                 conversations |-> ToSave(op, conv_id, conversations),
                 allowed |-> {stable} \cup BeingSaved,
                 overwritten |-> FALSE]]
        /\ UNCHANGED <<file, last, stable, relayVars>>

\* return conv / return found, of a call that saves nothing
ThreadReturn(h) ==
    /\ handler[h].pc = "return"
    /\ handler' = [handler EXCEPT ![h] = IdleHandler]
    /\ UNCHANGED <<file, nextId, last, stable, relayVars>>

\* with open(conv_file, 'w', encoding='utf-8') as f
ThreadOpen(h) ==
    /\ handler[h].pc = "open"
    /\ file' = [kind |-> "partial", conversations |-> <<>>]
    /\ handler' = [handler EXCEPT ![h] = [@ EXCEPT !.pc = "write"]]
    /\ UNCHANGED <<nextId, last, stable, relayVars>>

\* json.dump(...) and the close of the file.  When another thread wrote the
\* file since this one opened it, this text lands on top of the other: the
\* result is this text, or this text followed by the rest of a longer one.
ThreadWrite(h) ==
    /\ handler[h].pc = "write"
    /\ \/ /\ file' = Saved(handler[h].conversations)
          /\ stable' = handler[h].conversations
       \/ /\ handler[h].overwritten
          /\ file' = [kind |-> "partial", conversations |-> <<>>]
          /\ stable' = stable
    /\ handler' = [g \in Handlers |->
            IF g = h THEN IdleHandler
            ELSE IF handler[g].pc = "write"
                 THEN [handler[g] EXCEPT !.overwritten = TRUE]
                 ELSE handler[g]]
    /\ UNCHANGED <<nextId, last, relayVars>>

\* save_conversations(email, conversations) with the list the thread holds
RoundTripSave(h) ==
    /\ handler[h].pc = "save"
    /\ file' = Saved(handler[h].conversations)
    /\ handler' = [handler EXCEPT ![h] = [@ EXCEPT !.pc = "load"]]
    /\ UNCHANGED <<nextId, last, stable, relayVars>>

\* load_conversations(email), right after the save
RoundTripLoad(h) ==
    /\ handler[h].pc = "load"
    /\ handler' = [handler EXCEPT ![h] =
            [@ EXCEPT !.pc = "loaded", !.loaded = load_conversations]]
    /\ UNCHANGED <<file, nextId, last, stable, relayVars>>

\* ---------------------------------------------------------- specification
Init ==
    /\ file = [kind |-> "absent", conversations |-> <<>>]
    /\ nextId = 1
    /\ last = [op |-> "none", arg |-> 0, ok |-> TRUE, conv |-> NoConv, prev |-> "none"]
    /\ relay = [r \in Relays |-> IdleRelay]
    /\ registry = {}
    /\ handler = [h \in Handlers |-> IdleHandler]
    /\ stable = file.conversations

\* The calls of UserStorage, one after the other.
Next ==
    \/ GetActive /\ UNCHANGED <<relayVars, threadVars>>
    \/ CreateNew /\ UNCHANGED <<relayVars, threadVars>>
    \/ \E conv_id \in ArgIds : SetActive(conv_id) /\ UNCHANGED <<relayVars, threadVars>>
    \/ \E conv_id \in ArgIds, messages \in UpdateArgs :
            Update(conv_id, messages) /\ UNCHANGED <<relayVars, threadVars>>
    \/ \E conv_id \in ArgIds : Delete(conv_id) /\ UNCHANGED <<relayVars, threadVars>>

Spec == Init /\ [][Next]_vars

\* Collections the program leaves on disk: none yet; one conversation after
\* a completed chat turn; the same after createNew and setActive(1).
OneTurn == Updated(<<NewConv(1)>>, 1, <<UserMsg(Hi), AssistantMsg(<<"a">>)>>)

InitialFiles ==
    { [kind |-> "absent", conversations |-> <<>>],
      Saved(OneTurn),
      Saved(Activated(InsertFirst(NewConv(2), Deactivated(OneTurn)), 1)) }

InitRelay ==
    /\ file \in InitialFiles
    /\ nextId = Len(file.conversations) + 1
    /\ last = [op |-> "none", arg |-> 0, ok |-> TRUE, conv |-> NoConv, prev |-> "none"]
    /\ relay = [r \in Relays |-> IdleRelay]
    /\ registry = {}
    /\ handler = [h \in Handlers |-> IdleHandler]
    /\ stable = file.conversations

\* One chat request from its arrival to the end of its event stream, and a
\* stop request for it.
NextRelay ==
    \/ \E r \in Relays, text \in UserTexts : ChatStart(r, text)
    \/ \E r \in Relays : PostRaises(r)
    \/ \E r \in Relays, status_code \in Statuses : BackendResponds(r, status_code)
    \/ \E r \in Relays, line \in Lines : RecvLine(r, line)
    \/ \E r \in Relays : BodyEnd(r)
    \/ \E r \in Relays : BodyRaises(r)
    \/ \E r \in Relays : Commit(r)
    \/ \E r \in Relays : EmitDone(r)
    \/ \E r \in Relays : Stop(r)

InitThreads ==
    /\ file \in InitialFiles
    /\ nextId = Len(file.conversations) + 1
    /\ last = [op |-> "none", arg |-> 0, ok |-> TRUE, conv |-> NoConv, prev |-> "none"]
    /\ relay = [r \in Relays |-> IdleRelay]
    /\ registry = {}
    /\ handler = [h \in Handlers |-> IdleHandler]
    /\ stable = file.conversations

\* Two request threads, each making one UserStorage call after the other.
NextThreads ==
    \/ \E h \in Handlers, call \in ThreadCalls : ThreadLoad(h, call[1], call[2])
    \/ \E h \in Handlers : ThreadReturn(h)
    \/ \E h \in Handlers : ThreadOpen(h)
    \/ \E h \in Handlers : ThreadWrite(h)

SpecThreads == InitThreads /\ [][NextThreads]_vars

SpecRelay == InitRelay /\ [][NextRelay]_vars

\* Bodies of a backend that answers in fragments and may send a line that
\* is no JSON object.
TurnLines ==
    { Line("record", TRUE, <<"a">>, FALSE),
      Line("record", TRUE, <<"b">>, TRUE),
      Line("record", FALSE, <<>>, TRUE),
      Line("not_object", FALSE, <<>>, FALSE) }

\* Chat requests of one user, each sent after the stream of the one before
\* has ended.
NextTurns ==
    \/ \E r \in Relays, text \in UserTexts : ChatStart(r, text)
    \/ \E r \in Relays : PostRaises(r)
    \/ \E r \in Relays, status_code \in Statuses : BackendResponds(r, status_code)
    \/ \E r \in Relays, line \in TurnLines : RecvLine(r, line)
    \/ \E r \in Relays : BodyEnd(r)
    \/ \E r \in Relays : BodyRaises(r)
    \/ \E r \in Relays : Commit(r)
    \/ \E r \in Relays : EmitDone(r)
    \/ \E r \in Relays : NextRequest(r)

SpecTurns == InitRelay /\ [][NextTurns]_vars

\* A message list of n messages as chat() holds it: roles alternate from
\* first_role on, every message has a content and a timestamp of its own.
History(n, first_role, tag) ==
    [i \in 1..n |->
        [role |-> IF i % 2 = 1 THEN first_role
                  ELSE IF first_role = "user" THEN "assistant" ELSE "user",
         content |-> <<tag, ToString(i)>>,
         timestamp |-> i]]

Histories ==
    {History(n, first_role, tag) :
        n \in 0..MaxHistory, first_role \in {"user", "assistant"}, tag \in {"a", "b"}}

\* chat() holds a message list and is about to build the payload from it.
InitContext ==
    /\ file = Saved(<<NewConv(1)>>)
    /\ nextId = 2
    /\ last = [op |-> "none", arg |-> 0, ok |-> TRUE, conv |-> NoConv, prev |-> "none"]
    /\ relay \in {[r \in Relays |->
                    [IdleRelay EXCEPT !.pc = "context", !.conv_id = 1,
                                      !.messages = messages]] :
                  messages \in Histories}
    /\ registry = {}
    /\ handler = [h \in Handlers |-> IdleHandler]
    /\ stable = file.conversations

NextContext == \E r \in Relays : BuildContext(r)

SpecContext == InitContext /\ [][NextContext]_vars

\* Message lists of a chat turn: the user's text and the backend's answer
\* are what json.loads made of the bytes received.
RoundTripLists ==
    { <<>>,
      <<UserMsg(Hi)>>,
      <<UserMsg(Hi), AssistantMsg(<<"a">>)>>,
      <<UserMsg(<<"h", LoneSurrogate>>)>>,
      <<UserMsg(Hi), AssistantMsg(<<LoneSurrogate>>)>> }

\* Lists of conversations the calls of UserStorage hand to
\* save_conversations: none, one conversation, and a second one created
\* after it, each with one of the message lists.
RoundTripInputs ==
    {<<>>}
        \cup {Updated(<<NewConv(1)>>, 1, m) : m \in RoundTripLists}
        \cup {Updated(InsertFirst(NewConv(2),
                        Deactivated(Updated(<<NewConv(1)>>, 1, m1))), 2, m2) :
                    m1 \in RoundTripLists, m2 \in RoundTripLists}

\* A thread is about to save a list; the file is missing or holds an older
\* collection.
InitRoundTrip ==
    /\ file \in {[kind |-> "absent", conversations |-> <<>>], Saved(OneTurn)}
    /\ nextId = 3
    /\ last = [op |-> "none", arg |-> 0, ok |-> TRUE, conv |-> NoConv, prev |-> "none"]
    /\ relay = [r \in Relays |-> IdleRelay]
    /\ registry = {}
    /\ handler \in {[h \in Handlers |->
                        IF h = 1
                        THEN [IdleHandler EXCEPT !.pc = "save", !.conversations = c]
                        ELSE IdleHandler] :
                     c \in RoundTripInputs}
    /\ stable = file.conversations

NextRoundTrip ==
    \/ \E h \in Handlers : RoundTripSave(h)
    \/ \E h \in Handlers : RoundTripLoad(h)

SpecRoundTrip == InitRoundTrip /\ [][NextRoundTrip]_vars

\* Bodies of a backend that answers with fragments and a last record.
MixedLines ==
    { Line("record", TRUE, <<"a">>, FALSE),
      Line("record", TRUE, <<"b">>, TRUE) }

\* One chat request, and the requests of the same user's other tabs that
\* create, choose and delete conversations while it streams.
NextMixed ==
    \/ \E r \in Relays, text \in UserTexts : ChatStart(r, text)
    \/ \E r \in Relays, status_code \in Statuses : BackendResponds(r, status_code)
    \/ \E r \in Relays, line \in MixedLines : RecvLine(r, line)
    \/ \E r \in Relays : BodyEnd(r)
    \/ \E r \in Relays : Commit(r)
    \/ \E r \in Relays : EmitDone(r)
    \/ CreateNew /\ UNCHANGED <<relayVars, threadVars>>
    \/ \E conv_id \in ArgIds : SetActive(conv_id) /\ UNCHANGED <<relayVars, threadVars>>
    \/ \E conv_id \in ArgIds : Delete(conv_id) /\ UNCHANGED <<relayVars, threadVars>>

SpecMixed == InitRelay /\ [][NextMixed]_vars

\* Two chat requests of one user that overlap (two tabs, or a second
\* message sent while the first answer streams): each has a generate() of
\* its own.
Overlapping == {1, 2}

InitOverlap ==
    /\ file \in InitialFiles
    /\ nextId = Len(file.conversations) + 1
    /\ last = [op |-> "none", arg |-> 0, ok |-> TRUE, conv |-> NoConv, prev |-> "none"]
    /\ relay = [r \in Overlapping |-> IdleRelay]
    /\ registry = {}
    /\ handler = [h \in Handlers |-> IdleHandler]
    /\ stable = file.conversations

NextOverlap ==
    \/ \E r \in Overlapping, text \in UserTexts : ChatStart(r, text)
    \/ \E r \in Overlapping, status_code \in Statuses : BackendResponds(r, status_code)
    \/ \E r \in Overlapping, line \in MixedLines : RecvLine(r, line)
    \/ \E r \in Overlapping : Commit(r)
    \/ \E r \in Overlapping : EmitDone(r)

SpecOverlap == InitOverlap /\ [][NextOverlap]_vars

\* Message lists update_conversation is called with, and one whose first
\* user message is the text of the placeholder title.
TitleArgs == UpdateArgs \cup {<<UserMsg(NewTitle)>>}

\* The calls that create conversations and store message lists in them.
NextTitle ==
    \/ GetActive /\ UNCHANGED <<relayVars, threadVars>>
    \/ CreateNew /\ UNCHANGED <<relayVars, threadVars>>
    \/ \E conv_id \in ArgIds, messages \in TitleArgs :
            Update(conv_id, messages) /\ UNCHANGED <<relayVars, threadVars>>

SpecTitle == Init /\ [][NextTitle]_vars

\* Ids a request may name when up to MaxOrdered conversations are created.
OrderedIds == 1..(MaxOrdered + 1)

\* The calls that create, choose and delete conversations, one after the
\* other; no messages are stored.
NextOrder ==
    \/ GetActiveWithin(MaxOrdered) /\ UNCHANGED <<relayVars, threadVars>>
    \/ CreateNewWithin(MaxOrdered) /\ UNCHANGED <<relayVars, threadVars>>
    \/ \E conv_id \in OrderedIds : SetActive(conv_id) /\ UNCHANGED <<relayVars, threadVars>>
    \/ \E conv_id \in OrderedIds : Delete(conv_id) /\ UNCHANGED <<relayVars, threadVars>>

SpecOrder == Init /\ [][NextOrder]_vars

\* ------------------------------------------------------------------ claims
ActiveCount(conversations) ==
    Cardinality({i \in DOMAIN conversations : conversations[i].is_active})

\* The step is a call of op (the ghost record changed and names op).
Called(op) == last' # last /\ last'.op = op

\* C1: in every persisted state reached by getActive, createNew, setActive,
\* update and delete calls from an empty collection, at most one conversation
\* is active, and exactly one when the collection is not empty.
C1_ActiveInvariant ==
    /\ ActiveCount(load_conversations) <= 1
    /\ load_conversations # <<>> => ActiveCount(load_conversations) = 1

\* Two conversations, the older one re-activated by setActive.
C1_Witness ==
    /\ Len(load_conversations) = 2
    /\ last.op = "setActive" /\ last.ok
    /\ load_conversations[2].is_active

\* C9: getActive on an empty collection creates exactly one conversation,
\* active and without messages, persists it and returns it; getActive on a
\* collection that has an active conversation returns an active conversation
\* of the collection and leaves the file as it is; a getActive right after a
\* getActive returns the same id and changes nothing.
C9_GetActive ==
    [][Called("getActive") =>
        LET before == load_conversations
            after == load_conversations'
        IN  /\ before = <<>> =>
                /\ file'.kind = "json"
                /\ Len(after) = 1
                /\ after[1].is_active /\ after[1].messages = <<>>
                /\ last'.conv = after[1]
            /\ ActiveCount(before) >= 1 =>
                /\ file' = file
                /\ nextId' = nextId
                /\ \E i \in DOMAIN before :
                        before[i].is_active /\ last'.conv = before[i]
            /\ last.op = "getActive" =>
                /\ file' = file
                /\ last'.conv.id = last.conv.id]_vars

\* getActive created the first conversation and was then called again.
C9_Witness ==
    /\ last.op = "getActive" /\ last.prev = "getActive"
    /\ nextId = 2
    /\ Len(load_conversations) = 1
    /\ last.conv = load_conversations[1]

\* C10: right after a createNew call exactly one conversation is active, it
\* is the one the call created and returned, it is at position 0, and every
\* conversation that existed before is still there with the same messages.
C10_CreateNew ==
    [][Called("createNew") =>
        LET before == load_conversations
            after == load_conversations'
        IN  /\ ActiveCount(after) = 1
            /\ after[1].is_active
            /\ after[1] = last'.conv
            /\ \A i \in DOMAIN before : after[1].id # before[i].id
            /\ \A i \in DOMAIN before : \E j \in DOMAIN after :
                    /\ after[j].id = before[i].id
                    /\ after[j].messages = before[i].messages]_vars

\* createNew on a collection whose one conversation has messages.
C10_Witness ==
    /\ last.op = "createNew"
    /\ Len(load_conversations) = 2
    /\ load_conversations[1].id = last.conv.id
    /\ load_conversations[2].messages # <<>>


\* ------------------------------------------------------- claims: the relay
Terminal(event) == event.kind \in {"done", "error"}

TerminalCount(out) == Cardinality({i \in DOMAIN out : Terminal(out[i])})

\* The content fragment a received line carries (none: the empty text).
FragmentOf(line) ==
    IF line.kind = "record" /\ line.has_content THEN line.content ELSE <<>>

RECURSIVE Concatenation(_)
\* f1 .. fn of the lines of a body, concatenated
Concatenation(body) ==
    IF body = <<>> THEN <<>>
    ELSE Concatenation(SubSeq(body, 1, Len(body) - 1)) \o FragmentOf(body[Len(body)])

\* One content event per non-empty fragment of the body, in the body's order.
EventsOfFragments(body) ==
    LET carrying == SelectSeq(body, LAMBDA line : FragmentOf(line) # <<>>)
    IN  [i \in DOMAIN carrying |-> [kind |-> "content", content |-> FragmentOf(carrying[i])]]

EndsWithDoneRecord(body) ==
    body # <<>> /\ body[Len(body)].kind = "record" /\ body[Len(body)].done

\* The messages on disk of the conversation with this id.
PersistedMessages(conv_id) ==
    LET conversations == load_conversations
    IN  conversations[CHOOSE i \in DOMAIN conversations :
            conversations[i].id = conv_id].messages

\* C2: a relay that has ended has emitted exactly one terminal event (done
\* or error), and that event is the last of its stream, whatever the backend
\* did.
C2_OneTerminalEvent ==
    \A r \in Relays :
        relay[r].pc = "finished" =>
            /\ TerminalCount(relay[r].out) = 1
            /\ Terminal(relay[r].out[Len(relay[r].out)])

\* C3: when the body the relay has read ends with a done=true record, the
\* relay has emitted one content event per non-empty fragment in the order
\* received; it then appends an assistant message whose content is the
\* concatenation of the fragments and persists the message list with update,
\* and only after that emits the done event, which ends the stream.
C3_DoneBody ==
    \A r \in Relays :
        LET body == relay[r].body
            out == relay[r].out
            messages == relay[r].messages
        IN  /\ (\E i \in DOMAIN out : out[i].kind = "done") => relay[r].commits = 1
            /\ EndsWithDoneRecord(body) =>
                /\ relay[r].pc \in {"commit", "yield_done", "finished"}
                /\ relay[r].pc = "commit" =>
                        out = EventsOfFragments(body) /\ relay[r].commits = 0
                /\ relay[r].pc = "yield_done" =>
                        out = EventsOfFragments(body) /\ relay[r].commits = 1
                /\ relay[r].pc = "finished" =>
                        /\ out = EventsOfFragments(body) \o <<[kind |-> "done", content |-> <<>>]>>
                        /\ relay[r].commits = 1
                /\ relay[r].commits = 1 =>
                        /\ messages[Len(messages)] =
                                [role |-> "assistant", content |-> Concatenation(body)]
                        /\ PersistedMessages(relay[r].conv_id) = messages

\* The body {"message":{"content":"a"}} {"message":{"content":"b"},"done":true}
\* was relayed and committed to a conversation that had messages before.
C3_Witness ==
    \E r \in Relays :
        /\ relay[r].pc = "finished"
        /\ Len(relay[r].body) = 2
        /\ relay[r].out = <<ContentEvent(<<"a">>), ContentEvent(<<"b">>), DoneEvent>>
        /\ Len(relay[r].messages) = 4
        /\ PersistedMessages(relay[r].conv_id)[4].content = <<"a", "b">>

\* C4: once the stream token of a relay has been removed from the registry
\* between two lines, the relay emits no content event for a later line, and
\* commits no assistant message if its accumulator was empty at the removal.
C4_Cancellation ==
    \A r \in Relays :
        relay[r].stop_at >= 0 =>
            /\ \A i \in DOMAIN relay[r].out :
                    i > relay[r].stop_at => relay[r].out[i].kind # "content"
            /\ relay[r].stop_empty => relay[r].commits = 0

\* C5: a relay whose accumulated text is empty appends and persists no
\* assistant message.
C5_NoEmptyCommit ==
    \A r \in Relays :
        relay[r].full_response = <<>> => relay[r].commits = 0

\* C6: a relay whose backend answered with a status other than 200 has ended
\* with exactly one event, an error event, has not called update, and the step
\* that handled the answer left the file as it was.
C6_Non200 ==
    /\ [](\A r \in Relays :
            relay[r].status \notin {0, 200} =>
                /\ relay[r].pc = "finished"
                /\ Len(relay[r].out) = 1
                /\ relay[r].out[1].kind = "error"
                /\ relay[r].commits = 0)
    /\ [][\A r \in Relays :
            relay[r].status = 0 /\ relay'[r].status \notin {0, 200} => file' = file]_vars

\* The backend answered 404 to a chat on a collection of two conversations.
C6_Witness ==
    \E r \in Relays :
        /\ relay[r].status = 404
        /\ relay[r].pc = "finished"
        /\ Len(load_conversations) = 2

\* A line that is no well-formed record: it does not parse as JSON, or parses
\* to something that is no object with an object (or no) message and a text
\* (or no) content.
Malformed(line) ==
    line.kind \in {"bad_json", "not_utf8", "not_object",
                   "message_not_object", "content_not_text"}

\* C7: a line that is not a well-formed record is skipped: the step that
\* reads it emits no event, leaves the accumulator alone and the relay goes on
\* reading.
C7_MalformedSkipped ==
    [][\A r \in Relays :
        /\ Len(relay'[r].body) = Len(relay[r].body) + 1
        /\ Malformed(relay'[r].body[Len(relay'[r].body)])
        => /\ relay'[r].out = relay[r].out
           /\ relay'[r].full_response = relay[r].full_response
           /\ relay'[r].pc = "streaming"]_vars

\* ----------------------------------------------------- claims: the threads
IdsOf(conversations) == {conversations[i].id : i \in DOMAIN conversations}

\* C8: what a load returns while another thread saves is the collection that
\* was on disk before the save or the collection being saved, and so a call
\* that is not a delete never saves a collection without a conversation that
\* both of these hold.
C8_AtomicSave ==
    \A h \in Handlers :
        handler[h].pc # "idle" =>
            /\ handler[h].loaded \in handler[h].allowed
            /\ handler[h].op # "delete" =>
                    \E seen \in handler[h].allowed :
                        IdsOf(seen) \subseteq IdsOf(handler[h].conversations)

\* The ids of the active conversations.
ActiveIds(conversations) ==
    {conversations[i].id : i \in {j \in DOMAIN conversations : conversations[j].is_active}}

\* Ids are handed out in the order of creation: the newest comes first.
NewestFirst(conversations) ==
    \A i, j \in DOMAIN conversations : i < j => conversations[i].id > conversations[j].id

\* C11: every operation keeps the collection newest-created-first; delete of
\* the active conversation of a collection with at least two conversations
\* leaves exactly one active conversation, which is not the deleted one and
\* is the most recently created of those that remain; delete of a
\* conversation that is not active leaves the active conversation unchanged.
C11_DeleteActive ==
    /\ [](NewestFirst(load_conversations))
    /\ [][Called("delete") =>
            LET before == load_conversations
                after == load_conversations'
                conv_id == last'.arg
            IN  /\ (Len(before) >= 2 /\ conv_id \in ActiveIds(before)) =>
                        /\ ActiveCount(after) = 1
                        /\ conv_id \notin ActiveIds(after)
                        /\ \A a \in ActiveIds(after), c \in IdsOf(after) : a >= c
                /\ conv_id \notin ActiveIds(before) =>
                        ActiveIds(after) = ActiveIds(before)]_vars

\* The newest conversation, just created and so active, was deleted and two
\* older ones remain.
C11_Witness ==
    /\ last.op = "delete" /\ last.prev = "createNew"
    /\ last.arg = nextId - 1
    /\ Len(load_conversations) = 2
    /\ ActiveIds(load_conversations) = {nextId - 2}

\* C12: setActive with an id that is not in the collection returns false and
\* leaves the file as it was, so the active conversation stays active; with
\* an id that is in the collection it returns true and afterwards exactly
\* that conversation is active.
C12_SetActive ==
    [][Called("setActive") =>
        LET before == load_conversations
            after == load_conversations'
            conv_id == last'.arg
        IN  IF conv_id \in IdsOf(before)
            THEN /\ last'.ok
                 /\ ActiveIds(after) = {conv_id}
                 /\ ActiveCount(after) = 1
            ELSE /\ ~last'.ok
                 /\ file' = file
                 /\ ActiveIds(after) = ActiveIds(before)]_vars

\* setActive was refused while a conversation with messages was active.
C12_Witness ==
    /\ last.op = "setActive" /\ ~last.ok
    /\ \E i \in DOMAIN load_conversations :
            /\ load_conversations[i].is_active
            /\ load_conversations[i].messages # <<>>

\* The messages of the conversation with this id in a file; none when the
\* file has no such conversation.
MessagesIn(f, conv_id) ==
    LET conversations == IF f.kind = "json" THEN f.conversations ELSE <<>>
    IN  IF conv_id \in IdsOf(conversations)
        THEN conversations[CHOOSE i \in DOMAIN conversations :
                conversations[i].id = conv_id].messages
        ELSE <<>>

\* C13: over chat turns that follow one another, the messages a conversation
\* had on disk when a turn began are a prefix of those on disk after the
\* turn's commit, and the commit adds exactly two messages: the user's
\* message of the turn, then the assistant's with the accumulated text.
C13_AppendOnly ==
    [][\A r \in DOMAIN relay :
        (relay[r].pc = "commit" /\ relay'[r].pc = "yield_done") =>
            LET old == MessagesIn(relay[r].before, relay[r].conv_id)
                new == MessagesIn(file', relay[r].conv_id)
            IN  /\ MessagesIn(file, relay[r].conv_id) = old
                /\ new = old \o
                    <<[role |-> "user", content |-> relay[r].user_message],
                      [role |-> "assistant", content |-> relay[r].full_response]>>]_vars

\* The second turn was committed to a conversation that already held the
\* two messages of the first turn and two older ones.
C13_Witness ==
    \E r \in DOMAIN relay :
        /\ relay[r].turn = 2 /\ relay[r].commits = 1
        /\ Len(MessagesIn(relay[r].before, relay[r].conv_id)) = 4
        /\ Len(MessagesIn(file, relay[r].conv_id)) = 6

\* C14: an update that gives a conversation without user message and with the
\* title it was created with a user message sets the title to the first 50
\* characters of the first user message, with "..." after them only when the
\* message is longer; an update of a conversation that has a user message
\* leaves every title as it was.
C14_TitleStable ==
    [][Called("update") =>
        LET before == load_conversations
            after == load_conversations'
        IN  \A i \in DOMAIN before :
                /\ ( /\ before[i].id = last'.arg
                     /\ before[i].title = NewTitle
                     /\ ~HasUserMsg(before[i].messages)
                     /\ HasUserMsg(after[i].messages) ) =>
                        LET content == FirstUserMsg(after[i].messages).content
                        IN  after[i].title =
                                IF Len(content) > TitleLen
                                THEN SubSeq(content, 1, TitleLen) \o <<".", ".", ".">>
                                ELSE content
                /\ HasUserMsg(before[i].messages) =>
                        after[i].title = before[i].title]_vars

Min(a, b) == IF a < b THEN a ELSE b

\* C15: the list sent to the backend is the system message followed by role
\* and content of exactly the last min(n, 20) of the n messages, in their
\* order, so it has at most 21 entries; building it leaves the message list
\* it is built from as it was.
C15_Context ==
    /\ [](\A r \in DOMAIN relay :
            relay[r].pc = "requesting" =>
                LET messages == relay[r].messages
                    ollama_messages == relay[r].ollama_messages
                    n == Len(messages)
                    kept == Min(n, ContextLen)
                IN  /\ Len(ollama_messages) = 1 + kept
                    /\ Len(ollama_messages) <= ContextLen + 1
                    /\ ollama_messages[1].role = "system"
                    /\ \A k \in 1..kept :
                            /\ ollama_messages[1 + k].role = messages[n - kept + k].role
                            /\ ollama_messages[1 + k].content = messages[n - kept + k].content)
    /\ [][\A r \in DOMAIN relay :
            relay[r].ollama_messages' # relay[r].ollama_messages =>
                relay[r].messages' = relay[r].messages]_vars

\* The payload was built from a list of more than 20 messages.
C15_Witness ==
    \E r \in DOMAIN relay :
        /\ relay[r].pc = "requesting"
        /\ Len(relay[r].messages) > ContextLen
        /\ Len(relay[r].ollama_messages) = ContextLen + 1

\* C16: what load_conversations returns right after save_conversations is
\* equivalent to the list that was saved: the same ids in the same order, the
\* same is_active flags, the same messages in the same order.
C16_RoundTrip ==
    \A h \in DOMAIN handler :
        handler[h].pc = "loaded" =>
            LET saved == handler[h].conversations
                loaded == handler[h].loaded
            IN  /\ Len(loaded) = Len(saved)
                /\ \A i \in DOMAIN saved :
                        /\ loaded[i].id = saved[i].id
                        /\ loaded[i].is_active = saved[i].is_active
                        /\ loaded[i].messages = saved[i].messages

\* C17: an update and a delete with an id that is not in the collection
\* leave the collection as it was (ids, order, flags, titles, messages), and
\* the delete returns true; so the commit of a relay whose conversation was
\* deleted while it streamed neither brings the conversation back nor
\* changes another one.
C17_UnknownId ==
    [][(Called("update") \/ Called("delete")) =>
        LET before == load_conversations
            after == load_conversations'
        IN  last'.arg \notin IdsOf(before) =>
                /\ after = before
                /\ last'.arg \notin IdsOf(after)
                /\ last'.op = "delete" => last'.ok]_vars

\* A relay has committed after its conversation was deleted, and another
\* conversation is on disk.
C17_Witness ==
    \E r \in DOMAIN relay :
        /\ relay[r].commits = 1
        /\ last.op = "update" /\ last.arg = relay[r].conv_id
        /\ relay[r].conv_id \notin IdsOf(load_conversations)
        /\ load_conversations # <<>>

\* C18: when two relays read the same conversation before either commits
\* and both reach done, the commit of the second leaves on disk exactly the
\* list it read followed by its own user and assistant message: one
\* exchange more than both had read, without the exchange the first relay
\* had committed.
C18_LastWriteWins ==
    [][\A r, s \in DOMAIN relay :
        ( /\ r # s
          /\ relay[r].pc = "commit" /\ relay'[r].pc = "yield_done"
          /\ relay[s].commits = 1
          /\ relay[s].conv_id = relay[r].conv_id
          /\ MessagesIn(relay[s].before, relay[s].conv_id)
                = MessagesIn(relay[r].before, relay[r].conv_id) ) =>
            LET read == MessagesIn(relay[r].before, relay[r].conv_id)
                persisted == MessagesIn(file', relay[r].conv_id)
            IN  /\ MessagesIn(file, relay[r].conv_id) = relay[s].messages
                /\ persisted = read \o
                    <<[role |-> "user", content |-> relay[r].user_message],
                      [role |-> "assistant", content |-> relay[r].full_response]>>
                /\ Len(persisted) = Len(relay[s].messages)]_vars

\* Both relays have committed to the conversation both had read with two
\* messages; the first sent "hi" and the second the long text, and only the
\* long text is on disk.
C18_Witness ==
    /\ DOMAIN relay = {1, 2}
    /\ relay[1].commits = 1 /\ relay[2].commits = 1
    /\ relay[1].conv_id = relay[2].conv_id
    /\ Len(MessagesIn(relay[1].before, relay[1].conv_id)) = 2
    /\ Len(MessagesIn(relay[2].before, relay[2].conv_id)) = 2
    /\ relay[1].user_message = Hi /\ relay[2].user_message = Long
    /\ MessagesIn(file, relay[2].conv_id) = relay[2].messages

\* The list a file holds, as load_conversations reads it.
CollectionOf(f) == IF f.kind = "json" THEN f.conversations ELSE <<>>

\* The original statement of C19: when a relay has ended without a commit,
\* the collection on disk is the one that was there before the chat request.
C19_SameAsBeforeRequest ==
    \A r \in DOMAIN relay :
        (relay[r].pc = "finished" /\ relay[r].commits = 0) =>
            load_conversations = CollectionOf(relay[r].before)

\* C19: as long as a relay has not committed, and so on every outcome
\* without done, the file is the one that was there before the chat request
\* when that had an active conversation; when it had none, the collection
\* is the one before the request with one new conversation in front, which
\* is active, has the placeholder title and no message.  No message of the
\* user or of the assistant is on disk that was not there before.
C19_OnlyCommitWritesMessages ==
    \A r \in DOMAIN relay :
        (relay[r].pc # "idle" /\ relay[r].commits = 0) =>
            LET before == CollectionOf(relay[r].before)
                now == load_conversations
            IN  IF ActiveCount(before) >= 1
                THEN file = relay[r].before
                ELSE /\ Len(now) = Len(before) + 1
                     /\ SubSeq(now, 2, Len(now)) = before
                     /\ now[1].id = relay[r].conv_id
                     /\ now[1].id \notin IdsOf(before)
                     /\ now[1].is_active
                     /\ now[1].title = NewTitle
                     /\ now[1].messages = <<>>

\* A relay ended with an error event after it had relayed a fragment, and
\* the file with its two conversations is as before the request.
C19_Witness ==
    \E r \in DOMAIN relay :
        /\ relay[r].pc = "finished" /\ relay[r].commits = 0
        /\ relay[r].full_response # <<>>
        /\ relay[r].out[Len(relay[r].out)].kind = "error"
        /\ Len(load_conversations) = 2
        /\ file = relay[r].before

\* C20: the commit of a relay is an update of the conversation that was
\* active when its chat request arrived (the one chat() created when none
\* was), whatever was created or activated since; it stores there the list
\* read at the request followed by the user's and the assistant's message,
\* and leaves the order, every is_active flag and every other conversation
\* as they were on disk just before the commit.
C20_CommitsToOriginal ==
    [][\A r \in DOMAIN relay :
        (relay[r].pc = "commit" /\ relay'[r].pc = "yield_done") =>
            LET conv_id == relay[r].conv_id
                at_request == CollectionOf(relay[r].before)
                before == load_conversations
                after == load_conversations'
            IN  /\ IF ActiveCount(at_request) >= 1
                   THEN ActiveIds(at_request) = {conv_id}
                   ELSE conv_id \notin IdsOf(at_request)
                /\ last'.op = "update" /\ last'.arg = conv_id
                /\ Len(after) = Len(before)
                /\ \A i \in DOMAIN before :
                        /\ after[i].id = before[i].id
                        /\ after[i].is_active = before[i].is_active
                        /\ before[i].id # conv_id => after[i] = before[i]
                        /\ before[i].id = conv_id =>
                                after[i].messages =
                                    MessagesIn(relay[r].before, conv_id) \o
                                    <<[role |-> "user", content |-> relay[r].user_message],
                                      [role |-> "assistant",
                                       content |-> relay[r].full_response]>>]_vars

\* A relay has just committed the exchange to the conversation that was
\* active at its request, while another conversation is the active one.
C20_Witness ==
    \E r \in DOMAIN relay :
        /\ relay[r].commits = 1
        /\ last.op = "update" /\ last.arg = relay[r].conv_id
        /\ ActiveIds(CollectionOf(relay[r].before)) = {relay[r].conv_id}
        /\ relay[r].conv_id \in IdsOf(load_conversations)
        /\ relay[r].conv_id \notin ActiveIds(load_conversations)
        /\ MessagesIn(file, relay[r].conv_id) = relay[r].messages
        /\ Len(relay[r].messages) = 4
====
